---- MODULE Spec2Model ----
(***************************************************************************)
(* SeqLoggerCore: the event batching-and-delivery engine of                *)
(* jasonsoft/nestjs-seq.  The model follows the class SeqLoggerCore and    *)
(* EventCollection: a pending queue, a debounce timer, and the async       *)
(* send() cycle that builds size-bounded batches and posts them with       *)
(* retries.                                                                *)
(*                                                                         *)
(* Strings are modelled by their byte length.  A SeqEvent is a record      *)
(*   [Timestamp, Level, MessageTemplate, Properties]                       *)
(* where MessageTemplate is the length of the template, Properties maps    *)
(* each property name to the length of its (string) value, and Timestamp   *)
(* is the logical time of the `new Date()` that created the event.         *)
(***************************************************************************)
EXTENDS Integers, Sequences, FiniteSets, TLC

\* ---------------------------------------------------------------- bounds
\* emit() calls made by the host
MaxEvents == 2
\* close() calls made by the host
MaxCloseCalls == 2
\* length of a burst of equal events queued before the timer fires
MaxBurst == 15
\* length of a queue of mixed events queued before the timer fires
MaxMixed == 3
\* logging calls made on the SeqLogger service
MaxLogCalls == 2
\* objects of a value given to safeStringify
MaxObjects == 2
\* arguments of a call of the console logger
MaxArgs == 3

\* ------------------------------------------------------ program constants
START_TAG == 11
END_TAG == 2
TAG_LENGTH == START_TAG + END_TAG
DEBOUNCE_MS == 2000
PARTIAL_MESSAGE_LENGTH == 50
\* bytes of `[{context}] - (Log too large) ` plus `...`
LARGE_TEMPLATE_LENGTH == 33
\* bytes of `Event body is larger than ` plus ` bytes: `
LARGE_MESSAGE_LENGTH == 34
\* bytes of 'jasonsoft/nestjs-seq'
CONTEXT_LENGTH == 20
\* bytes of `[{context}] Seq logger initialized successfully`
INIT_TEMPLATE_LENGTH == 47
\* bytes of {"Timestamp":"<ISO-8601>","Level":"","MessageTemplate":"","Properties":}
EVENT_SYNTAX_LENGTH == 86

\* `timeout` when no runtime timeout is pending
NoTimeout == 0 - 1

\* ------------------------------------------------------------- variables
VARIABLES
  options,      \* resolved SeqLoggerOptions (the fields send() reads)
  events,       \* EventCollection.collection
  isRunning,    \* SeqLoggerCore.isRunning
  isInitEvent,  \* SeqLoggerCore.isInitEvent
  timer,        \* SeqLoggerCore.timer: "undefined" or "handle"
  timeout,      \* delay of the runtime timeout that has not fired yet, or NoTimeout
  sends,        \* the send() invocations that are suspended at an await
  rejected,     \* a send() promise ended rejected (an error was thrown out of send())
  wire,         \* history: every axios.post made, with its body and outcome
  removed,      \* history: Timestamps of the events taken off the queue
  nextId,       \* logical clock: the value of the next `new Date()`
  emitCalls,    \* number of emit() calls made by the host
  closeCalls,   \* number of close() calls made
  call          \* the host's latest call into the library other than emit()
                \* and close(), with its arguments

vars == <<options, events, isRunning, isInitEvent, timer, timeout, sends,
          rejected, wire, removed, nextId, emitCalls, closeCalls, call>>

\* ------------------------------------------------------------ byte sizes
RECURSIVE Digits(_)
Digits(n) == IF n < 10 THEN 1 ELSE 1 + Digits(n \div 10)

RECURSIVE SumLen(_, _)
SumLen(p, keys) ==
  IF keys = {} THEN 0
  ELSE LET k == CHOOSE x \in keys : TRUE
       IN  Len(k) + 5 + p[k] + SumLen(p, keys \ {k})

\* byte length of the JSON text of a Properties object: braces, one
\* "key":"value" per property, commas between them
PropertiesLength(p) ==
  LET n == Cardinality(DOMAIN p)
  IN  2 + SumLen(p, DOMAIN p) + (IF n > 0 THEN n - 1 ELSE 0)

\* Buffer.byteLength(safeStringify(event))
JsonLength(event) ==
  EVENT_SYNTAX_LENGTH + Len(event.Level) + event.MessageTemplate
    + PropertiesLength(event.Properties)

\* a property value that is a BigInt, in place of the length of a string
\* value
BigIntValue == 0 - 2

\* JSON.stringify throws a TypeError on a BigInt value, and safeStringify
\* lets it pass
stringifyThrows(event) ==
  \E k \in DOMAIN event.Properties : event.Properties[k] = BigIntValue

\* safeStringify(event), when it returns: the text is represented by the
\* event it encodes and its byte length
safeStringify(event) == [event |-> event, len |-> JsonLength(event)]

Min(a, b) == IF a < b THEN a ELSE b

\* ------------------------------------------------------- EventCollection
\* a variant of add that puts the event in front (unshift for push)
addFront(collection, event) == <<event>> \o collection

add(collection, event) == Append(collection, event)

\* a variant of remove that leaves the collection as it is
removeNothing(collection, index) == collection

\* remove(index): splice(index, 1) when index >= 0
remove(collection, index) ==
  IF index >= 0 /\ index < Len(collection)
  THEN SubSeq(collection, 1, index) \o SubSeq(collection, index + 2, Len(collection))
  ELSE collection

get(collection, index) == collection[index + 1]

size(collection) == Len(collection)

\* ------------------------------------------------------ handleLargeEvent
\* a variant of handleLargeEvent that gives every placeholder the level
\* Warning
handleLargeEventWarning(event, currentBodyLen, eventBodyLimit) ==
  LET partialMessage == Min(event.MessageTemplate, PARTIAL_MESSAGE_LENGTH)
      copied == {k \in {"hostname", "logger"} : k \in DOMAIN event.Properties}
  IN  [Timestamp       |-> event.Timestamp,
       Level           |-> "Warning",
       MessageTemplate |-> LARGE_TEMPLATE_LENGTH + partialMessage,
       Properties      |->
         [k \in {"context", "message"} \cup copied |->
            CASE k = "context" -> CONTEXT_LENGTH
              [] k = "message" -> LARGE_MESSAGE_LENGTH + Digits(eventBodyLimit)
                                    + Digits(currentBodyLen)
              [] OTHER -> event.Properties[k]]]

\* options.serviceName is not configured: the key is left out of the JSON
handleLargeEvent(event, currentBodyLen, eventBodyLimit) ==
  LET partialMessage == Min(event.MessageTemplate, PARTIAL_MESSAGE_LENGTH)
      copied == {k \in {"hostname", "logger"} : k \in DOMAIN event.Properties}
  IN  [Timestamp       |-> event.Timestamp,
       Level           |-> event.Level,
       MessageTemplate |-> LARGE_TEMPLATE_LENGTH + partialMessage,
       Properties      |->
         [k \in {"context", "message"} \cup copied |->
            CASE k = "context" -> CONTEXT_LENGTH
              [] k = "message" -> LARGE_MESSAGE_LENGTH + Digits(eventBodyLimit)
                                    + Digits(currentBodyLen)
              [] OTHER -> event.Properties[k]]]

\* ------------------------------------------------- send(): batch building
\* a variant of BuildBatch that also leaves out an event that fills the
\* batch up to the limit exactly (>= for >)
RECURSIVE BuildBatchStrict(_, _, _, _)
BuildBatchStrict(collection, contentLen, contentArray, opts) ==
  IF size(collection) = 0
  THEN [events |-> collection, contentArray |-> contentArray, threw |-> FALSE]
  ELSE IF stringifyThrows(get(collection, 0))
  THEN [events |-> collection, contentArray |-> contentArray, threw |-> TRUE]
  ELSE LET event == get(collection, 0)
           first == safeStringify(event)
           json  == IF first.len > opts.eventBodyLimit
                    THEN safeStringify(handleLargeEvent(event, first.len,
                                                        opts.eventBodyLimit))
                    ELSE first
       IN  IF contentLen + json.len >= opts.batchPayloadLimit
           THEN [events |-> collection, contentArray |-> contentArray,
                 threw |-> FALSE]
           ELSE BuildBatchStrict(remove(collection, 0), contentLen + json.len,
                                 Append(contentArray, json), opts)

\* the while loop of send(): lines 278-304; `threw` tells that
\* safeStringify threw, which ends send() at once
RECURSIVE BuildBatch(_, _, _, _)
BuildBatch(collection, contentLen, contentArray, opts) ==
  IF size(collection) = 0
  THEN [events |-> collection, contentArray |-> contentArray, threw |-> FALSE]
  ELSE IF stringifyThrows(get(collection, 0))
  THEN [events |-> collection, contentArray |-> contentArray, threw |-> TRUE]
  ELSE LET event == get(collection, 0)
           first == safeStringify(event)
           json  == IF first.len > opts.eventBodyLimit
                    THEN safeStringify(handleLargeEvent(event, first.len,
                                                        opts.eventBodyLimit))
                    ELSE first
       IN  IF contentLen + json.len > opts.batchPayloadLimit
           THEN [events |-> collection, contentArray |-> contentArray,
                 threw |-> FALSE]
           ELSE BuildBatch(remove(collection, 0), contentLen + json.len,
                           Append(contentArray, json), opts)

RECURSIVE SumJson(_)
SumJson(contentArray) ==
  IF contentArray = <<>> THEN 0
  ELSE Head(contentArray).len + SumJson(Tail(contentArray))

\* `${START_TAG}${contentArray.join(',')}${END_TAG}` and its byte length
Content(contentArray) ==
  [items |-> contentArray,
   len   |-> START_TAG + SumJson(contentArray)
               + (IF Len(contentArray) > 0 THEN Len(contentArray) - 1 ELSE 0)
               + END_TAG]

Stamps(contentArray) == {contentArray[i].event.Timestamp : i \in DOMAIN contentArray}

\* ---------------------------------------------------- the shipper's state
\* The operations below are functions of a record `s` of the mutable
\* fields; `cur` is the send() invocation being run: <<>> when it has ended,
\* <<c>> when it is suspended at an await.
This ==
  [events |-> events, isRunning |-> isRunning, isInitEvent |-> isInitEvent,
   timer |-> timer, timeout |-> timeout, rejected |-> rejected, wire |-> wire,
   removed |-> removed, nextId |-> nextId, cur |-> <<>>]

\* a variant of start without the check of the timer handle
startUnguarded(s, ms) == [s EXCEPT !.timer = "handle", !.timeout = ms]

start(s, ms) ==
  IF s.timer # "undefined" THEN s
  ELSE [s EXCEPT !.timer = "handle", !.timeout = ms]

stop(s) == [s EXCEPT !.timer = "undefined", !.timeout = NoTimeout]

\* a variant of emit that clears the timer and arms it again on every call
emitRestart(s, event) ==
  IF ~s.isRunning THEN s
  ELSE start(stop([s EXCEPT !.events = add(@, event)]), DEBOUNCE_MS)

\* a variant of emit without the check of the running flag
emitAlways(s, event) == start([s EXCEPT !.events = add(@, event)], DEBOUNCE_MS)

emit(s, event) ==
  IF ~s.isRunning THEN s
  ELSE start([s EXCEPT !.events = add(@, event)], DEBOUNCE_MS)

\* send() from its call to its first await (or its end)
RECURSIVE send(_, _)
send(s, opts) ==
  LET b  == BuildBatch(s.events, TAG_LENGTH, <<>>, opts)
      s1 == [s EXCEPT !.events = b.events,
                      !.removed = @ \cup Stamps(b.contentArray)]
  IN  IF b.threw
      THEN \* the TypeError leaves send(): its promise is rejected
           [s1 EXCEPT !.rejected = TRUE]
      ELSE IF Len(b.contentArray) > 0 /\ opts.maxRetries > 0
      THEN \* first pass of the for loop: axios.post is awaited
           LET content == Content(b.contentArray)
           IN  [s1 EXCEPT
                  !.wire = Append(@, [body |-> content, status |-> "pending"]),
                  !.cur  = <<[pc |-> "post", content |-> content, times |-> 0,
                              req |-> Len(s.wire) + 1]>>]
      ELSE IF size(s1.events) > 0
      THEN IF Len(b.contentArray) > 0
           THEN send(s1, opts)
           ELSE \* `await this.send()` on an unchanged queue, with no await
                \* in between: the recursion ends with a RangeError
                [s1 EXCEPT !.rejected = TRUE]
      ELSE stop(s1)

\* lines 379-383: after the attempts of a batch
afterAttempts(s, opts) ==
  IF size(s.events) > 0 THEN send(s, opts) ELSE stop(s)

\* ------------------------------------------------------------ the inputs
\* os.hostname(), by its length
HostnameLength == 4

\* the events the host emits, without their Timestamp
Shapes ==
  { [Level |-> "Information", MessageTemplate |-> 10,
     Properties |-> [hostname |-> HostnameLength, logger |-> 3]],
    [Level |-> "Error", MessageTemplate |-> 60,
     Properties |-> [hostname |-> HostnameLength, logger |-> 3, data |-> 200]] }

NewEvent(shape, now) ==
  [Timestamp |-> now, Level |-> shape.Level,
   MessageTemplate |-> shape.MessageTemplate, Properties |-> shape.Properties]

\* the event of lines 327-335; `meta` is the metaProperties object
\* {"hostname":..,"logger":"seq"}
InitEvent(now) ==
  [Timestamp |-> now, Level |-> "Information",
   MessageTemplate |-> INIT_TEMPLATE_LENGTH,
   Properties |-> [context |-> CONTEXT_LENGTH, meta |-> 28 + HostnameLength]]

\* configurations, all with eventBodyLimit < batchPayloadLimit
Configs ==
  { [eventBodyLimit |-> 300, batchPayloadLimit |-> 400, maxRetries |-> 2],
    [eventBodyLimit |-> 200, batchPayloadLimit |-> 300, maxRetries |-> 1],
    [eventBodyLimit |-> 150, batchPayloadLimit |-> 153, maxRetries |-> 1],
    [eventBodyLimit |-> 300, batchPayloadLimit |-> 400, maxRetries |-> 0] }

\* outcomes of one axios.post: a 2xx response, a response with status
\* 500-599, a response with another status, an error without response whose
\* code is one of NETWORK_ERRORS, any other error
Outcomes == {"2xx", "5xx", "4xx", "network", "other"}

Retryable(outcome) == outcome \in {"5xx", "network"}

\* `call` when the host has made no such call
NoCall == [op |-> "none"]

\* ------------------------------------------------------------- actions
Commit(s, newSends) ==
  /\ events' = s.events
  /\ isRunning' = s.isRunning
  /\ isInitEvent' = s.isInitEvent
  /\ timer' = s.timer
  /\ timeout' = s.timeout
  /\ rejected' = s.rejected
  /\ wire' = s.wire
  /\ removed' = s.removed
  /\ nextId' = s.nextId
  /\ sends' = newSends

ReplaceAt(seq, i, new) ==
  SubSeq(seq, 1, i - 1) \o new \o SubSeq(seq, i + 1, Len(seq))

\* the constructor: lines 190-193 and 204-213
Init ==
  /\ options \in Configs
  /\ events = <<>>
  /\ isRunning = TRUE
  /\ isInitEvent = FALSE
  /\ timer = "undefined"
  /\ timeout = NoTimeout
  /\ sends = <<>>
  /\ rejected = FALSE
  /\ wire = <<>>
  /\ removed = {}
  /\ nextId = 1
  /\ emitCalls = 0
  /\ closeCalls = 0
  /\ call = NoCall

\* the host calls emit(event) with a new event
Emit(shape) ==
  /\ emitCalls < MaxEvents
  /\ emitCalls' = emitCalls + 1
  /\ Commit(emit([This EXCEPT !.nextId = @ + 1], NewEvent(shape, nextId)), sends)
  /\ UNCHANGED <<options, closeCalls, call>>

\* a variant of close without the check of the running flag
closeUnguarded(s) == start([s EXCEPT !.isRunning = FALSE], 0)

close(s) ==
  IF ~s.isRunning THEN s
  ELSE start([s EXCEPT !.isRunning = FALSE], 0)

\* SeqLogger.onApplicationShutdown, or any other caller of close()
Close ==
  /\ closeCalls < MaxCloseCalls
  /\ closeCalls' = closeCalls + 1
  /\ Commit(close(This), sends)
  /\ UNCHANGED <<options, emitCalls, call>>

\* the runtime runs the callback of setTimeout: () => this.send()
TimerFires ==
  /\ timeout # NoTimeout
  /\ LET s == send([This EXCEPT !.timeout = NoTimeout], options)
     IN  Commit(s, sends \o s.cur)
  /\ UNCHANGED <<options, emitCalls, closeCalls, call>>

\* `times < this.options.maxRetries - 1`: another pass of the for loop follows
mayRetry(times, opts) == times < opts.maxRetries - 1

\* a variant of afterPost without the `break` after a 2xx response: the
\* for loop goes on after any outcome while passes are left
afterPostNoBreak(s, c, outcome, opts) ==
  LET s0 == [s EXCEPT !.wire[c.req].status = outcome]
      s1 == IF outcome = "2xx" /\ ~s0.isInitEvent
            THEN emit([s0 EXCEPT !.isInitEvent = TRUE, !.nextId = @ + 1],
                      InitEvent(s0.nextId))
            ELSE s0
  IN  IF (outcome = "2xx" \/ Retryable(outcome)) /\ mayRetry(c.times, opts)
      THEN [s1 EXCEPT !.cur = <<[c EXCEPT !.pc = "sleep"]>>]
      ELSE afterAttempts(s1, opts)

\* what the for loop does with the outcome of the awaited axios.post
\* (lines 324-375), up to the next await
afterPost(s, c, outcome, opts) ==
  LET s0 == [s EXCEPT !.wire[c.req].status = outcome]
  IN  IF outcome = "2xx"
      THEN IF ~s0.isInitEvent
           THEN afterAttempts(
                  emit([s0 EXCEPT !.isInitEvent = TRUE, !.nextId = @ + 1],
                       InitEvent(s0.nextId)), opts)
           ELSE afterAttempts(s0, opts)
      ELSE IF Retryable(outcome) /\ mayRetry(c.times, opts)
      THEN [s0 EXCEPT !.cur = <<[c EXCEPT !.pc = "sleep"]>>]
      ELSE afterAttempts(s0, opts)

\* the awaited axios.post of invocation i settles
PostCompletes(i, outcome) ==
  /\ i \in DOMAIN sends
  /\ sends[i].pc = "post"
  /\ LET s == afterPost(This, sends[i], outcome, options)
     IN  Commit(s, ReplaceAt(sends, i, s.cur))
  /\ UNCHANGED <<options, emitCalls, closeCalls, call>>

\* a variant of afterSleep that builds the content again, from the batch
\* and the events queued since
afterSleepRebuilt(s, c) ==
  LET content == Content(c.content.items
                           \o [k \in DOMAIN s.events |-> safeStringify(s.events[k])])
  IN  [s EXCEPT
         !.events = <<>>,
         !.removed = @ \cup Stamps(content.items),
         !.wire = Append(@, [body |-> content, status |-> "pending"]),
         !.cur  = <<[c EXCEPT !.pc = "post", !.times = @ + 1, !.content = content,
                              !.req = Len(s.wire) + 1]>>]

\* the next pass of the for loop, after `await sleep(delay)`
afterSleep(s, c) ==
  [s EXCEPT
     !.wire = Append(@, [body |-> c.content, status |-> "pending"]),
     !.cur  = <<[c EXCEPT !.pc = "post", !.times = @ + 1,
                          !.req = Len(s.wire) + 1]>>]

\* the awaited sleep(delay) of invocation i ends
SleepCompletes(i) ==
  /\ i \in DOMAIN sends
  /\ sends[i].pc = "sleep"
  /\ LET s == afterSleep(This, sends[i])
     IN  Commit(s, ReplaceAt(sends, i, s.cur))
  /\ UNCHANGED <<options, emitCalls, closeCalls, call>>

Next ==
  \/ \E shape \in Shapes : Emit(shape)
  \/ Close
  \/ TimerFires
  \/ \E i \in DOMAIN sends, outcome \in Outcomes : PostCompletes(i, outcome)
  \/ \E i \in DOMAIN sends : SleepCompletes(i)

Spec == Init /\ [][Next]_vars

\* ------------------------------------------- draining a queue built before
\* A second specification: the shipper after a burst of emit() calls, with
\* the debounce timer of the first emit still pending, and no further
\* emit() or close().
DrainConfigs ==
  { [eventBodyLimit |-> 300, batchPayloadLimit |-> 400, maxRetries |-> 2],
    [eventBodyLimit |-> 150, batchPayloadLimit |-> 153, maxRetries |-> 1],
    [eventBodyLimit |-> 200, batchPayloadLimit |-> 2128, maxRetries |-> 1],
    [eventBodyLimit |-> 141, batchPayloadLimit |-> 450, maxRetries |-> 1] }

Small == CHOOSE shape \in Shapes : shape.Level = "Information"

Bursts == {[i \in 1..n |-> NewEvent(Small, i)] : n \in 1..MaxBurst}

Mixed ==
  UNION {{[i \in 1..n |-> NewEvent(f[i], i)] : f \in [1..n -> Shapes]} : n \in 1..MaxMixed}

\* the long bursts are drained under the configuration whose batch holds them
Queues(opts) == IF opts.batchPayloadLimit > 2000 THEN Bursts \cup Mixed ELSE Mixed

InitDrain ==
  /\ options \in DrainConfigs
  /\ events \in Queues(options)
  /\ isRunning = TRUE
  /\ isInitEvent \in BOOLEAN
  /\ timer = "handle"
  /\ timeout = DEBOUNCE_MS
  /\ sends = <<>>
  /\ rejected = FALSE
  /\ wire = <<>>
  /\ removed = {}
  /\ nextId = Len(events) + 1
  /\ emitCalls = Len(events)
  /\ closeCalls = 0
  /\ call = NoCall

NextDrain ==
  \/ TimerFires
  \/ \E i \in DOMAIN sends, outcome \in Outcomes : PostCompletes(i, outcome)
  \/ \E i \in DOMAIN sends : SleepCompletes(i)

SpecDrain == InitDrain /\ [][NextDrain]_vars

\* --------------------------------------------- close() during a send cycle
\* A fourth specification: the host calls close() only while a send cycle
\* is active, that is while an attempt is outstanding or the cycle waits
\* to retry.
CloseInFlight == sends # <<>> /\ Close

NextFlight ==
  \/ \E shape \in Shapes : Emit(shape)
  \/ CloseInFlight
  \/ TimerFires
  \/ \E i \in DOMAIN sends, outcome \in Outcomes : PostCompletes(i, outcome)
  \/ \E i \in DOMAIN sends : SleepCompletes(i)

SpecFlight == Init /\ [][NextFlight]_vars

\* ------------------------------------------- events that cannot be encoded
\* A third specification: the host also emits an event one of whose
\* property values is a BigInt (for instance the `logger` or `stack` that
\* SeqLogger.prepareProperties passes on as it is).  The limits are such
\* that every event and every placeholder fits into a batch.
FaultConfigs ==
  { [eventBodyLimit |-> 300, batchPayloadLimit |-> 400, maxRetries |-> 2] }

FaultShapes ==
  { Small,
    [Level |-> "Information", MessageTemplate |-> 10,
     Properties |-> [hostname |-> HostnameLength, logger |-> BigIntValue]] }

InitFault ==
  /\ options \in FaultConfigs
  /\ events = <<>>
  /\ isRunning = TRUE
  /\ isInitEvent = FALSE
  /\ timer = "undefined"
  /\ timeout = NoTimeout
  /\ sends = <<>>
  /\ rejected = FALSE
  /\ wire = <<>>
  /\ removed = {}
  /\ nextId = 1
  /\ emitCalls = 0
  /\ closeCalls = 0
  /\ call = NoCall

NextFault ==
  \/ \E shape \in FaultShapes : Emit(shape)
  \/ Close
  \/ TimerFires
  \/ \E i \in DOMAIN sends, outcome \in Outcomes : PostCompletes(i, outcome)
  \/ \E i \in DOMAIN sends : SleepCompletes(i)

SpecFault == InitFault /\ [][NextFault]_vars

\* ------------------------------------------------- resolving the options
\* A specification of the constructor alone: the host constructs shippers
\* with partial options.  A JavaScript value is a record tagged with its
\* type.
Num(n) == [number |-> n]
Str(s) == [string |-> s]
Undefined == [undefined |-> TRUE]

defaultOptions ==
  [serverUrl         |-> Str("http://localhost:5341"),
   batchPayloadLimit |-> Num(10485760),
   eventBodyLimit    |-> Num(262144),
   maxRetries        |-> Num(5),
   delay             |-> Num(5),
   timeout           |-> Num(30),
   metaFieldName     |-> Str("meta")]

\* { ...defaultOptions, ...options }: every own key of options replaces
\* the default, whatever its value
mergeOptionsWithDefaults(opts) ==
  [k \in DOMAIN defaultOptions \cup DOMAIN opts |->
     IF k \in DOMAIN opts THEN opts[k] ELSE defaultOptions[k]]

\* what a caller sets a key to, when it gives it a value
CallerValue ==
  [serverUrl         |-> Str("https://seq.example.com"),
   batchPayloadLimit |-> Num(400),
   eventBodyLimit    |-> Num(300),
   maxRetries        |-> Num(2),
   delay             |-> Num(1),
   timeout           |-> Num(10),
   metaFieldName     |-> Str("extra")]

\* the options objects of the callers: each key is absent, present with
\* the value undefined, or present with the caller's value
CallerOptions ==
  UNION {[keys -> {"undefined", "value"}] : keys \in SUBSET DOMAIN defaultOptions}

OptionsObject(choice) ==
  [k \in DOMAIN choice |->
     IF choice[k] = "value" THEN CallerValue[k] ELSE Undefined]

\* new SeqLoggerCore(opts): lines 188-213
Constructed(opts) ==
  /\ options = mergeOptionsWithDefaults(opts)
  /\ events = <<>>
  /\ isRunning = TRUE
  /\ isInitEvent = FALSE
  /\ timer = "undefined"
  /\ timeout = NoTimeout
  /\ sends = <<>>
  /\ rejected = FALSE
  /\ wire = <<>>
  /\ removed = {}
  /\ nextId = 1
  /\ emitCalls = 0
  /\ closeCalls = 0
  /\ call = [op |-> "new SeqLoggerCore", options |-> opts]

\* a shipper constructed with the empty options object
InitOptions == Constructed(<<>>)

\* the host constructs another shipper
Construct(opts) ==
  /\ options' = mergeOptionsWithDefaults(opts)
  /\ events' = <<>>
  /\ isRunning' = TRUE
  /\ isInitEvent' = FALSE
  /\ timer' = "undefined"
  /\ timeout' = NoTimeout
  /\ sends' = <<>>
  /\ rejected' = FALSE
  /\ wire' = <<>>
  /\ removed' = {}
  /\ nextId' = 1
  /\ emitCalls' = 0
  /\ closeCalls' = 0
  /\ call' = [op |-> "new SeqLoggerCore", options |-> opts]

NextOptions == \E choice \in CallerOptions : Construct(OptionsObject(choice))

SpecOptions == InitOptions /\ [][NextOptions]_vars

\* ------------------------------------------------- the SeqLogger service
\* A specification of the logging calls of the SeqLogger service in front
\* of a shipper whose options carry logLevels: unset, one level, or an
\* array of levels (by the set of its elements).
LogLevel == {"verbose", "debug", "info", "log", "warn", "error", "fatal"}

LOG_LEVELS_VALUES ==
  [level \in LogLevel |->
     CASE level = "verbose" -> 0
       [] level = "debug"   -> 1
       [] level = "info"    -> 2
       [] level = "log"     -> 2
       [] level = "warn"    -> 3
       [] level = "error"   -> 4
       [] level = "fatal"   -> 5]

levelMapping ==
  [level \in LogLevel |->
     CASE level = "verbose" -> "Verbose"
       [] level = "debug"   -> "Debug"
       [] level = "info"    -> "Information"
       [] level = "log"     -> "Information"
       [] level = "warn"    -> "Warning"
       [] level = "error"   -> "Error"
       [] level = "fatal"   -> "Fatal"]

LogLevelsSettings ==
  {[unset |-> TRUE]}
    \cup {[level |-> l] : l \in LogLevel}
    \cup {[levels |-> a] : a \in SUBSET LogLevel}

\* a variant of shouldLog that asks for a level above the minimum
shouldLogAbove(level, logLevels) ==
  IF "unset" \in DOMAIN logLevels THEN TRUE
  ELSE IF "levels" \in DOMAIN logLevels THEN level \in logLevels.levels
  ELSE LOG_LEVELS_VALUES[level] > LOG_LEVELS_VALUES[logLevels.level]

shouldLog(level, logLevels) ==
  IF "unset" \in DOMAIN logLevels THEN TRUE
  ELSE IF "levels" \in DOMAIN logLevels THEN level \in logLevels.levels
  ELSE LOG_LEVELS_VALUES[level] >= LOG_LEVELS_VALUES[logLevels.level]

\* commit(level, ...): the SeqEvent built from a short template and no
\* properties of the caller, handed to emit()
commit(s, level) ==
  emit([s EXCEPT !.nextId = @ + 1],
       NewEvent([Small EXCEPT !.Level = levelMapping[level]], s.nextId))

\* logMessage, and handleErrorLogging for the level error
logMessage(s, level, logLevels) ==
  IF ~shouldLog(level, logLevels) THEN s ELSE commit(s, level)

InitService ==
  /\ options \in {[eventBodyLimit |-> 300, batchPayloadLimit |-> 400,
                   maxRetries |-> 1, logLevels |-> ll] : ll \in LogLevelsSettings}
  /\ events = <<>>
  /\ isRunning = TRUE
  /\ isInitEvent = FALSE
  /\ timer = "undefined"
  /\ timeout = NoTimeout
  /\ sends = <<>>
  /\ rejected = FALSE
  /\ wire = <<>>
  /\ removed = {}
  /\ nextId = 1
  /\ emitCalls = 0
  /\ closeCalls = 0
  /\ call = [op |-> "log", n |-> 0]

\* the host calls SeqLogger.verbose, debug, info, log, warn, error or fatal
Log(level) ==
  /\ call.n < MaxLogCalls
  /\ call' = [op |-> "log", n |-> call.n + 1, level |-> level]
  /\ Commit(logMessage(This, level, options.logLevels), sends)
  /\ UNCHANGED <<options, emitCalls, closeCalls>>

NextService == \E level \in LogLevel : Log(level)

SpecService == InitService /\ [][NextService]_vars

\* --------------------------------------------- safeStringify on object graphs
\* A value is a number, or a reference [ref |-> o] to the object o of a
\* heap; a heap gives each object its properties "a" and "b", in insertion
\* order, where Undefined stands for a property the object does not have.
Objects == 1..MaxObjects

Keys == <<"a", "b">>

Ref(o) == [ref |-> o]

IsObject(value) == DOMAIN value = {"ref"}

Values == {Undefined, Num(1)} \cup {Ref(o) : o \in Objects}

Heaps == [Objects -> [{Keys[i] : i \in DOMAIN Keys} -> Values]]

\* the text '[Circular]'
Circular == Str("[Circular]")

\* JSON.stringify(obj, replacer) with the replacer of safeStringify: the
\* holder's properties are visited in order, the replacer is called with
\* each value and the WeakSet `seen` lives for the whole call.  The result
\* is the JSON text as a tree (a property with the value undefined is left
\* out), with `seen` after the visit.
RECURSIVE serializeObject(_, _, _, _, _)
serializeObject(heap, o, i, text, seen) ==
  IF i > Len(Keys) THEN [text |-> text, seen |-> seen]
  ELSE LET key   == Keys[i]
           value == heap[o][key]
       IN  IF value = Undefined
           THEN serializeObject(heap, o, i + 1, text, seen)
           ELSE IF ~IsObject(value)
           THEN serializeObject(heap, o, i + 1, text @@ (key :> value), seen)
           ELSE IF value.ref \in seen
           THEN serializeObject(heap, o, i + 1, text @@ (key :> Circular), seen)
           ELSE LET child == serializeObject(heap, value.ref, 1, <<>>,
                                             seen \cup {value.ref})
                IN  serializeObject(heap, o, i + 1,
                                    text @@ (key :> child.text), child.seen)

\* safeStringify(obj) for the object `obj` of the heap: the replacer is
\* first called with the root itself
safeStringifyObject(heap, obj) == serializeObject(heap, obj, 1, <<>>, {obj}).text

\* A specification of safeStringify alone: the host calls it on the first object
\* of any heap.
InitStringify ==
  /\ options \in FaultConfigs
  /\ events = <<>>
  /\ isRunning = TRUE
  /\ isInitEvent = FALSE
  /\ timer = "undefined"
  /\ timeout = NoTimeout
  /\ sends = <<>>
  /\ rejected = FALSE
  /\ wire = <<>>
  /\ removed = {}
  /\ nextId = 1
  /\ emitCalls = 0
  /\ closeCalls = 0
  /\ call \in {[op |-> "safeStringify", heap |-> heap, obj |-> 1] : heap \in Heaps}

Stringify ==
  /\ call.op = "safeStringify"
  /\ call' = [op |-> "safeStringify returned", heap |-> call.heap,
              obj |-> call.obj,
              text |-> safeStringifyObject(call.heap, call.obj)]
  /\ UNCHANGED <<options, events, isRunning, isInitEvent, timer, timeout,
                 sends, rejected, wire, removed, nextId, emitCalls, closeCalls>>

NextStringify == Stringify

SpecStringify == InitStringify /\ [][NextStringify]_vars

\* ------------------------------------------- the arguments of a logging call
\* The objects of a call live in `objects`, a sequence of property maps;
\* Ref(o) is a reference to the o-th of them, so that two names of one
\* object see each other's writes.  All of them are plain objects.
IsString(value) == DOMAIN value = {"string"}

\* truthiness of a string, undefined or an object
Truthy(value) == value # Undefined /\ value # Str("")

isPlainObject(value) == IsObject(value)

\* a string that holds a stack trace
StackText == Str("Error: boom\n    at run (app.js:1:1)")

\* /\n\s+at\s+.+:\d+:\d+/.test(value)
isStackTrace(value) == value = StackText

\* value.match(/Error: (.+)/)[1], for a value that holds a stack trace
errorMatch(value) == Str("boom")

\* a message template: its text without a leading '[{context}] ', and
\* whether it starts with one
Template(text) == [context |-> FALSE, text |-> text]

\* `{ ...obj }` or an object literal: a new object
new(objects, obj) ==
  [objects |-> Append(objects, obj), ref |-> Ref(Len(objects) + 1)]

\* ref[key] = value
assign(objects, ref, key, value) ==
  [objects EXCEPT ![ref.ref] = (key :> value) @@ @]

\* ref[key]
property(objects, ref, key) ==
  IF key \in DOMAIN objects[ref.ref] THEN objects[ref.ref][key] ELSE Undefined

\* the result of getMessageTemplateAndProperties or handleErrorLogging:
\* a template, and the properties object `o` in its heap
withTemplate(o, messageTpl) ==
  [messageTpl |-> messageTpl, props |-> o.ref, objects |-> o.objects]

\* lines 721-729: `empty` is the object of `let props = {}`
propsOf(empty, propsOrContext) ==
  IF ~Truthy(propsOrContext) THEN empty
  ELSE IF IsString(propsOrContext)
  THEN [empty EXCEPT !.objects = assign(@, empty.ref, "context", propsOrContext)]
  ELSE IF isPlainObject(propsOrContext)
  THEN \* props = propsOrContext: the caller's object itself
       [empty EXCEPT !.ref = propsOrContext]
  ELSE [empty EXCEPT !.objects = assign(@, empty.ref, "properties", propsOrContext)]

\* lines 731-733
withContext(p, context) ==
  IF Truthy(context)
  THEN [p EXCEPT !.objects = assign(@, p.ref, "context", context)]
  ELSE p

\* lines 735-739
prefixed(p, messageTemplate) ==
  withTemplate(p, IF Truthy(property(p.objects, p.ref, "context"))
                       /\ ~messageTemplate.context
                  THEN [messageTemplate EXCEPT !.context = TRUE]
                  ELSE messageTemplate)

getMessageTemplateAndProperties(objects, messageTemplate, propsOrContext, context) ==
  prefixed(withContext(propsOf(new(objects, <<>>), propsOrContext), context),
           messageTemplate)

errorEntries(objects, obj) ==
  {k \in DOMAIN objects[obj.ref] : isStackTrace(objects[obj.ref][k])}

\* lines 470-473: newObj is the sanitized object
sanitized(newObj, errorStack) ==
  [obj |-> newObj.ref, errorMessage |-> errorMatch(errorStack),
   errorStack |-> errorStack, objects |-> newObj.objects]

\* lines 450-469: the entries under the keys `errors` hold a stack trace
withoutErrors(objects, obj, errors, errorStack) ==
  sanitized(new(objects,
                [k \in (DOMAIN objects[obj.ref] \ errors) \cup {"stack"} |->
                   IF k = "stack" THEN errorStack ELSE objects[obj.ref][k]]),
            errorStack)

\* analyzeErrorPresence(obj) for a plain object whose error-like values
\* are strings that hold a stack trace
analyzeErrorPresence(objects, obj) ==
  IF errorEntries(objects, obj) # {}
  THEN withoutErrors(objects, obj, errorEntries(objects, obj),
                     objects[obj.ref][CHOOSE k \in errorEntries(objects, obj) : TRUE])
  ELSE [obj |-> obj, errorMessage |-> Str(""), errorStack |-> Str(""),
        objects |-> objects]

defaultMessage == Str("(No message provided)")

\* lines 513-523: the first argument is not a string
analyzedFirst(a, context) ==
  getMessageTemplateAndProperties(
    a.objects,
    Template(IF Truthy(a.errorMessage) THEN a.errorMessage ELSE defaultMessage),
    a.obj, context)

\* lines 502-524
errorFirst(objects, messageOrPropsOrError, context) ==
  IF IsString(messageOrPropsOrError)
  THEN IF isStackTrace(messageOrPropsOrError)
       THEN withTemplate(new(objects, [stack |-> messageOrPropsOrError]),
                         Template(errorMatch(messageOrPropsOrError)))
       ELSE withTemplate(new(objects, <<>>), Template(messageOrPropsOrError))
  ELSE analyzedFirst(analyzeErrorPresence(objects, messageOrPropsOrError), context)

\* lines 541-545
stackOf(stack, errorStack) ==
  IF Truthy(errorStack)
  THEN IF Truthy(stack)
       THEN Str(stack.string \o "\nCaused by: " \o errorStack.string)
       ELSE errorStack
  ELSE stack

\* line 554: { ...properties, ...props, stack }
spread(g, P, Q, stack) ==
  withTemplate(new(g.objects,
                   [k \in DOMAIN P \cup DOMAIN Q \cup {"stack"} |->
                      IF k = "stack" THEN stack
                      ELSE IF k \in DOMAIN Q THEN Q[k] ELSE P[k]]),
               g.messageTpl)

merged(g, properties, stack) ==
  spread(g, g.objects[properties.ref], g.objects[g.props.ref], stack)

\* lines 535-553: `a` is what analyzeErrorPresence returned, or the
\* context string in place of the object
errorMerge(first, a, context) ==
  merged(getMessageTemplateAndProperties(
           a.objects,
           IF Truthy(a.errorMessage)
                /\ (~Truthy(first.messageTpl.text)
                      \/ first.messageTpl.text = defaultMessage)
           THEN [first.messageTpl EXCEPT !.text = a.errorMessage]
           ELSE first.messageTpl,
           a.obj, context),
         first.props,
         stackOf(property(first.objects, first.props, "stack"), a.errorStack))

\* lines 527-555
errorSecond(first, propsOrErrorOrContext, context) ==
  IF ~Truthy(propsOrErrorOrContext) THEN first
  ELSE IF IsString(propsOrErrorOrContext)
  THEN errorMerge(first,
                  [obj |-> propsOrErrorOrContext, errorMessage |-> Str(""),
                   errorStack |-> Str(""), objects |-> first.objects],
                  context)
  ELSE errorMerge(first,
                  analyzeErrorPresence(first.objects, propsOrErrorOrContext),
                  context)

\* lines 557-559
errorContext(second, context) ==
  IF Truthy(context)
  THEN [second EXCEPT !.objects = assign(@, second.props, "context", context)]
  ELSE second

\* handleErrorLogging up to its call of commit: the template and the
\* properties it hands over
handleErrorLogging(objects, messageOrPropsOrError, propsOrErrorOrContext, context) ==
  errorContext(errorSecond(errorFirst(objects, messageOrPropsOrError, context),
                           propsOrErrorOrContext, context),
               context)

\* JSON.parse(safeStringify(value)) of a property value: a copy of the
\* object or array, the value itself for a string
jsonCopy(objects, value) ==
  IF IsObject(value) THEN [object |-> objects[value.ref]]
  ELSE IF DOMAIN value = {"array"}
  THEN [array |-> [i \in DOMAIN value.array |->
                     IF IsObject(value.array[i])
                     THEN [object |-> objects[value.array[i].ref]]
                     ELSE value.array[i]]]
  ELSE value

\* options.metaFieldName, by default
metaFieldName == "meta"

\* prepareProperties: stack and logger are taken out, the other properties
\* go through JSON (which drops those whose value is undefined), and the
\* meta field is added
prepareProperties(objects, properties) ==
  LET P == objects[properties.ref]
      logger == IF property(objects, properties, "logger") = Undefined
                THEN Str("seq") ELSE P.logger
      rest == {k \in DOMAIN P \ {"stack", "logger"} : P[k] # Undefined}
  IN  [props |-> (metaFieldName :> [logger |-> logger])
                   @@ [k \in rest |-> jsonCopy(objects, P[k])],
       stack |-> property(objects, properties, "stack")]

\* the SeqEvent that commit builds, without its Timestamp
SeqEvent(level, messageTemplate, prepared) ==
  [Level |-> levelMapping[level], MessageTemplate |-> messageTemplate,
   Properties |-> prepared.props, Exception |-> prepared.stack]

\* bytes of '[{context}] '
CONTEXT_PREFIX_LENGTH == 12

\* byte length of the JSON text of a property value, without its two
\* enclosing characters
\* the line feeds of a string, each written \n in JSON: one in a stack
\* trace, three in two stack traces joined by '\nCaused by: '
LineFeeds(value) ==
  IF value = StackText THEN 1
  ELSE IF value = Str(StackText.string \o "\nCaused by: " \o StackText.string)
  THEN 3
  ELSE 0

\* an object or array holds strings and objects of strings
StringLength(value) == Len(value.string) + LineFeeds(value)

ObjectLength(value) ==
  PropertiesLength([k \in DOMAIN value.object |-> StringLength(value.object[k])]) - 2

ElementLength(value) ==
  IF IsString(value) THEN StringLength(value) ELSE ObjectLength(value)

RECURSIVE ElementsLength(_)
ElementsLength(array) ==
  IF array = <<>> THEN 0
  ELSE ElementLength(Head(array)) + 2 + ElementsLength(Tail(array))

JsonValueLength(value) ==
  IF IsString(value) THEN StringLength(value)
  ELSE IF DOMAIN value = {"object"} THEN ObjectLength(value)
  ELSE IF DOMAIN value = {"array"}
  THEN ElementsLength(value.array)
         + (IF Len(value.array) > 0 THEN Len(value.array) - 1 ELSE 0)
  ELSE 0

\* the SeqEvent by its byte lengths; the meta field holds the hostname and
\* the logger, and Exception is written like one more property
EventShape(seqEvent) ==
  [Level |-> seqEvent.Level,
   MessageTemplate |-> Len(seqEvent.MessageTemplate.text.string)
                         + (IF seqEvent.MessageTemplate.context
                            THEN CONTEXT_PREFIX_LENGTH ELSE 0),
   Properties |->
     [k \in DOMAIN seqEvent.Properties
              \cup (IF seqEvent.Exception = Undefined THEN {} ELSE {"Exception"}) |->
        IF k = "Exception" /\ k \notin DOMAIN seqEvent.Properties
        THEN JsonValueLength(seqEvent.Exception)
        ELSE IF k = metaFieldName
        THEN 28 + HostnameLength - 3
               + JsonValueLength(seqEvent.Properties[k].logger)
        ELSE JsonValueLength(seqEvent.Properties[k])]]

\* commit with the SeqEvent built from the arguments of the call
commitEvent(s, seqEvent) ==
  emit([s EXCEPT !.nextId = @ + 1], NewEvent(EventShape(seqEvent), s.nextId))

\* commit(level, messageTpl, props) with the result `g` of
\* getMessageTemplateAndProperties or handleErrorLogging
committed(g, level) ==
  [logged |-> TRUE, objects |-> g.objects,
   seqEvent |-> SeqEvent(level, g.messageTpl,
                         prepareProperties(g.objects, g.props))]

\* a logging call of SeqLogger: what it hands to commit, or nothing when
\* the level is filtered out
loggingCall(objects, level, args, logLevels) ==
  IF ~shouldLog(level, logLevels)
  THEN [logged |-> FALSE, objects |-> objects]
  ELSE IF level = "error"
  THEN committed(handleErrorLogging(objects, args[1], args[2], args[3]), level)
  ELSE committed(getMessageTemplateAndProperties(objects, args[1], args[2],
                                                 args[3]), level)

\* the properties objects a caller passes
CallerObjects ==
  UNION {[keys -> {Str("u1"), StackText}] : keys \in SUBSET {"userId", "context"}}

\* the arguments of a logging call: a message template, then nothing, a
\* context or the caller's object, then nothing or a context; error()
\* takes a string or the object first
LoggingArgs(level) ==
  { <<a1, a2, a3>> :
      a1 \in IF level = "error" THEN {Str("msg"), StackText, Ref(1)}
             ELSE {Template(Str("msg"))},
      a2 \in {Undefined, Str("Ctx"), Ref(1)},
      a3 \in {Undefined, Str("Ctx")} }

\* A specification of single logging calls of SeqLogger with their
\* arguments, in front of a new shipper.
InitLogger ==
  /\ options \in {[eventBodyLimit |-> 300, batchPayloadLimit |-> 400,
                   maxRetries |-> 1, logLevels |-> ll] :
                  ll \in {[unset |-> TRUE], [level |-> "warn"]}}
  /\ events = <<>>
  /\ isRunning = TRUE
  /\ isInitEvent = FALSE
  /\ timer = "undefined"
  /\ timeout = NoTimeout
  /\ sends = <<>>
  /\ rejected = FALSE
  /\ wire = <<>>
  /\ removed = {}
  /\ nextId = 1
  /\ emitCalls = 0
  /\ closeCalls = 0
  /\ call \in UNION {{[op |-> "SeqLogger", level |-> level, args |-> args,
                       properties |-> obj] :
                      args \in LoggingArgs(level), obj \in CallerObjects} :
                     level \in LogLevel}

\* the call has returned with `r`, what it came to: `properties` becomes
\* the caller's object after the call
LoggerReturned(r) ==
  /\ call' = [op |-> "SeqLogger returned", level |-> call.level,
              args |-> call.args, passed |-> call.properties,
              properties |-> r.objects[1],
              seqEvent |-> IF r.logged THEN r.seqEvent ELSE Undefined]
  /\ Commit(IF r.logged THEN commitEvent(This, r.seqEvent) ELSE This, sends)

LoggerCall ==
  /\ call.op = "SeqLogger"
  /\ LoggerReturned(loggingCall(<<call.properties>>, call.level, call.args,
                                options.logLevels))
  /\ UNCHANGED <<options, emitCalls, closeCalls>>

NextLogger == LoggerCall

SpecLogger == InitLogger /\ [][NextLogger]_vars

\* ------------------------------------------------------ ConsoleSeqLogger
\* the levels whose methods share getContextAndMessages
ConsoleLevels == {"log", "warn", "debug", "verbose", "fatal"}

\* the object a caller passes to the console logger: { id: '7' }
ConsoleObject == [id |-> Str("7")]

\* safeStringify(message) for that object
ConsoleObjectText == "{\"id\":\"7\"}"

ConsoleValues == {Str("hello"), Str("Ctx"), Ref(1), Undefined}

ConsoleArgs == UNION {[1..n -> ConsoleValues] : n \in 1..MaxArgs}

\* `${value}` for a string or undefined
ToText(value) == IF value = Undefined THEN Str("undefined") ELSE value

IsDefined(arg) == arg # Undefined

getContextAndMessages(args, thisContext) ==
  LET params == SelectSeq(args, IsDefined)
      lastElement == IF Len(params) > 0 THEN params[Len(params)] ELSE Undefined
      isContext == IsString(lastElement)
  IN  [messages |-> IF isContext THEN SubSeq(params, 1, Len(params) - 1)
                    ELSE params,
       context  |-> IF isContext THEN lastElement ELSE thisContext]

\* forwardToSeqLogger up to its call of this.logger[level]: the template
\* and the properties object it passes
forwardToSeqLogger(objects, messages, context, stack) ==
  LET message == IF Len(messages) > 0 THEN messages[1] ELSE Undefined
      optionalParams == IF Len(messages) > 0 THEN Tail(messages) ELSE <<>>
      processedMessage ==
        IF IsObject(message)
        THEN Str(" - (Object/Array detected, please expand to view) "
                   \o ConsoleObjectText \o "...")
        ELSE message
      o == new(objects,
               [logger |-> Str("console"), context |-> context,
                message |-> message,
                optionalParams |-> IF Len(optionalParams) > 0
                                   THEN [array |-> optionalParams] ELSE Undefined,
                stack |-> stack])
  IN  [messageTemplate |-> [context |-> TRUE, text |-> ToText(processedMessage)],
       properties |-> o.ref, objects |-> o.objects]

\* this.logger[level](template, properties) with what forwardToSeqLogger
\* built
forwarded(f, level, logLevels) ==
  loggingCall(f.objects, level, <<f.messageTemplate, f.properties, Undefined>>,
              logLevels)

\* forwardToSeqLogger(level, messages, context)
forward(cm, level, logLevels) ==
  forwarded(forwardToSeqLogger(<<ConsoleObject>>, cm.messages, cm.context,
                               Undefined),
            level, logLevels)

\* log, warn, debug, verbose and fatal of ConsoleSeqLogger, up to the
\* SeqEvent committed; super[level] prints to the console
consoleCall(level, args, thisContext, logLevels) ==
  forward(getContextAndMessages(args, thisContext), level, logLevels)

\* A specification of single calls of the console logger; isLevelEnabled
\* is the ConsoleLogger's own filter, `context` its this.context.
InitConsole ==
  /\ options \in {[eventBodyLimit |-> 300, batchPayloadLimit |-> 400,
                   maxRetries |-> 1, logLevels |-> ll] :
                  ll \in {[unset |-> TRUE], [level |-> "warn"]}}
  /\ events = <<>>
  /\ isRunning = TRUE
  /\ isInitEvent = FALSE
  /\ timer = "undefined"
  /\ timeout = NoTimeout
  /\ sends = <<>>
  /\ rejected = FALSE
  /\ wire = <<>>
  /\ removed = {}
  /\ nextId = 1
  /\ emitCalls = 0
  /\ closeCalls = 0
  /\ call \in [op : {"ConsoleSeqLogger"}, level : ConsoleLevels,
               args : ConsoleArgs, context : {Undefined, Str("App")},
               isLevelEnabled : BOOLEAN]

\* the call has returned with `r`, what the logging call came to
ConsoleReturned(r) ==
  /\ call' = [op |-> "ConsoleSeqLogger returned", level |-> call.level,
              args |-> call.args, context |-> call.context,
              seqEvent |-> IF r.logged THEN r.seqEvent ELSE Undefined]
  /\ Commit(IF r.logged THEN commitEvent(This, r.seqEvent) ELSE This, sends)

ConsoleCall ==
  /\ call.op = "ConsoleSeqLogger"
  /\ ConsoleReturned(IF call.isLevelEnabled
                     THEN consoleCall(call.level, call.args, call.context,
                                      options.logLevels)
                     ELSE [logged |-> FALSE])
  /\ UNCHANGED <<options, emitCalls, closeCalls>>

NextConsole == ConsoleCall

SpecConsole == InitConsole /\ [][NextConsole]_vars

\* ===================================================================
\* Properties
\* ===================================================================
BodyStamps(body) == Stamps(body.items)

\* the attempts made for the batch of the request wire[i]
AttemptsOf(i) == {j \in DOMAIN wire : wire[j].body = wire[i].body}

\* the batch of wire[i] is no longer held by a send() invocation
Finished(i) == \A k \in DOMAIN sends : sends[k].content # wire[i].body

\* C1: the events appear in the request bodies in the order of their
\* emission: inside one body the timestamps increase, a later request
\* either repeats the body of an earlier one unchanged (a retry) or holds
\* only events emitted after all the events of the earlier one.
C1_FifoPreserved ==
  /\ \A i \in DOMAIN wire :
       \A a, b \in DOMAIN wire[i].body.items :
         a < b => wire[i].body.items[a].event.Timestamp
                    < wire[i].body.items[b].event.Timestamp
  /\ \A i, j \in DOMAIN wire :
       i < j => \/ wire[i].body = wire[j].body
                \/ \A x \in BodyStamps(wire[i].body), y \in BodyStamps(wire[j].body) :
                     x < y
  /\ \A i \in DOMAIN wire :
       \A x \in BodyStamps(wire[i].body), k \in DOMAIN events :
         x < events[k].Timestamp

\* a batch of two events was sent, failed, was retried, and a later batch
\* followed it
C1_Witness ==
  /\ Len(wire) >= 3
  /\ Len(wire[1].body.items) = 2
  /\ wire[2].body = wire[1].body
  /\ wire[3].body # wire[1].body

\* C2: every batch-building pass of send() that starts with a non-empty
\* queue consumes at least one event, so that no send cycle repeats on an
\* unchanged queue (`rejected` records exactly such a pass).
C2_Progress == ~rejected

\* C3: every request body is at most batchPayloadLimit plus the length of
\* the opening and closing tags.
C3_BatchCeiling ==
  \A i \in DOMAIN wire : wire[i].body.len <= options.batchPayloadLimit + TAG_LENGTH

\* C4: every serialized event of a request body is at most eventBodyLimit
\* bytes long.
C4_EventCeiling ==
  \A i \in DOMAIN wire :
    \A a \in DOMAIN wire[i].body.items :
      wire[i].body.items[a].len <= options.eventBodyLimit

\* C5: a batch whose attempts were all answered with status 500-599 was
\* attempted exactly maxRetries times when the shipper is done with it, its
\* events are off the queue, and the shipper has gone on with the events
\* that remain or arrive later: a later request exists, or the queue is
\* empty, or a timer armed by a later emit is pending.
C5_RetryBound ==
  \A i \in DOMAIN wire :
    (Finished(i) /\ \A j \in AttemptsOf(i) : wire[j].status = "5xx")
      => /\ Cardinality(AttemptsOf(i)) = options.maxRetries
         /\ \A k \in DOMAIN events : events[k].Timestamp \notin BodyStamps(wire[i].body)
         /\ \/ \E j \in DOMAIN wire : j > i /\ wire[j].body # wire[i].body
            \/ size(events) = 0
            \/ timeout # NoTimeout

\* the events of the request bodies
Attempted == UNION {BodyStamps(wire[i].body) : i \in DOMAIN wire}

\* C6: every event taken off the queue is part of a request that was made.
C6_NoSilentLoss == removed \subseteq Attempted

\* C7: once close() has returned, the queue is empty and no send cycle or
\* HTTP attempt is outstanding.
C7_DrainedWhenCloseReturns ==
  closeCalls > 0 =>
    /\ size(events) = 0
    /\ sends = <<>>
    /\ \A i \in DOMAIN wire : wire[i].status # "pending"

\* C8: a closed shipper never waits for the debounce delay: after close()
\* no 2000 ms timeout is pending.
C8_CloseSkipsDebounce == ~isRunning => timeout # DEBOUNCE_MS

\* C9: at most one send() cycle is active and at most one request is
\* outstanding; no timeout is pending while a cycle is active.
C9_SingleFlight ==
  /\ Len(sends) <= 1
  /\ Cardinality({i \in DOMAIN wire : wire[i].status = "pending"}) <= 1
  /\ (timeout # NoTimeout => sends = <<>>)

\* a cycle is active on a closed shipper while more events are queued
C9_Witness ==
  /\ Len(sends) = 1
  /\ ~isRunning
  /\ size(events) > 0

\* the number of the attempt wire[i] among the attempts of its batch
AttemptNo(i) == Cardinality({j \in AttemptsOf(i) : j <= i})

\* C10: no batch is attempted more than maxRetries times; after a retryable
\* failure of an attempt that is not the last allowed one, the cycle
\* sleeps holding the same content, and the request that follows has the
\* same body, whatever was emitted in between.
C10_RetrySameBatch ==
  /\ \A i \in DOMAIN wire : Cardinality(AttemptsOf(i)) <= options.maxRetries
  /\ \A k \in DOMAIN sends :
       sends[k].pc = "sleep" =>
         /\ Retryable(wire[sends[k].req].status)
         /\ wire[sends[k].req].body = sends[k].content
  /\ \A i \in DOMAIN wire :
       (Retryable(wire[i].status) /\ AttemptNo(i) < options.maxRetries)
         => IF i < Len(wire)
            THEN wire[i + 1].body = wire[i].body
            ELSE \E k \in DOMAIN sends :
                   sends[k].pc = "sleep" /\ sends[k].content = wire[i].body

\* a batch was retried after a retryable failure while another event was
\* waiting in the queue
C10_Witness ==
  /\ Len(wire) = 2
  /\ Retryable(wire[1].status)
  /\ wire[2].body = wire[1].body
  /\ size(events) > 0


\* the Timestamps of the events of the pending queue
QueueStamps == {events[k].Timestamp : k \in DOMAIN events}

\* C11 as stated: while a send() invocation holds a batch (its attempt is
\* outstanding, or it waits to retry after a retryable failure), the
\* events of the batch are still in the pending queue.
C11_InQueueUntilSettled ==
  \A k \in DOMAIN sends : BodyStamps(sends[k].content) \subseteq QueueStamps

\* C11: the events of a batch are taken off the pending queue when the
\* batch is built, before its first attempt.  While an attempt is
\* outstanding and while the cycle waits to retry after a retryable
\* failure, none of them is in the queue: the batch is held as the content
\* of the send() invocation, equal to the body of its last request, and a
\* request that is outstanding or is to be retried always has such a holder.
C11_HeldByCycle ==
  /\ \A k \in DOMAIN sends :
       /\ sends[k].content.items # <<>>
       /\ BodyStamps(sends[k].content) \cap QueueStamps = {}
       /\ BodyStamps(sends[k].content) \subseteq removed
       /\ wire[sends[k].req].body = sends[k].content
       /\ sends[k].pc = "post" => wire[sends[k].req].status = "pending"
       /\ sends[k].pc = "sleep" => Retryable(wire[sends[k].req].status)
  /\ \A i \in DOMAIN wire :
       wire[i].status = "pending" =>
         \E k \in DOMAIN sends : sends[k].pc = "post" /\ sends[k].req = i

\* a batch waits for its retry, held by the cycle, while the queue holds
\* an event emitted after it
C11_Witness ==
  /\ Len(sends) = 1
  /\ sends[1].pc = "sleep"
  /\ QueueStamps # {}
  /\ BodyStamps(sends[1].content) \cap QueueStamps = {}

\* C12: an attempt answered with a status that is neither 2xx nor 500-599
\* is the last attempt for its batch: no request with the same body
\* follows, the batch is dropped (no cycle holds it, its events are off the
\* queue), and the shipper continues with the remaining queue: a request
\* for the next batch exists, or the queue is empty, or only events
\* emitted after the cycle ended wait for their debounce timer.
C12_PermanentNotRetried ==
  \A i \in DOMAIN wire :
    wire[i].status = "4xx"
      => /\ \A j \in AttemptsOf(i) : j <= i
         /\ Finished(i)
         /\ BodyStamps(wire[i].body) \cap QueueStamps = {}
         /\ \/ \E j \in DOMAIN wire : j > i /\ wire[j].body # wire[i].body
            \/ size(events) = 0
            \/ timeout # NoTimeout

\* C13: an event that the serializer cannot encode does no harm to the
\* send cycle: no send() invocation ends with an error, every event taken
\* off the queue is part of a request, and the shipper is never left with
\* the timer handle set while no timeout is pending and no cycle runs.
C13_FaultContained ==
  /\ ~rejected
  /\ removed \subseteq Attempted
  /\ ~(timer = "handle" /\ timeout = NoTimeout /\ sends = <<>>)

\* the shipper is idle: no timer handle, no send cycle, nothing queued
Idle == timer = "undefined" /\ sends = <<>> /\ size(events) = 0

\* the runtime owes the shipper a step: a timeout that has not fired, or
\* the await (axios.post or sleep) of an active send cycle
RuntimePending == timeout # NoTimeout \/ sends # <<>>

\* C14: the shipper comes to rest only in the idle state.  The host makes
\* finitely many calls and every batch is retried a bounded number of
\* times, so a fair runtime brings the shipper to a state in which it owes
\* no step; there the queue is empty, no cycle runs and no timer is armed.
C14_DrainsToIdle == RuntimePending \/ Idle

\* a step in which the attempts for a batch end: an outstanding request is
\* answered and the cycle does not go to sleep for a retry
BatchEnds ==
  /\ \E r \in DOMAIN wire : wire[r].status = "pending" /\ wire'[r].status # "pending"
  /\ \A k \in DOMAIN sends' : sends'[k].pc # "sleep"

\* C15: in the step in which the attempts for a batch end, either the
\* request for the next batch is made (built from the queue in the same
\* step, with no timeout armed), or the queue is empty and the shipper
\* turns idle with the timer handle cleared; and an emit on the idle,
\* running shipper arms the debounce timeout anew.
C15_NoDebounceBetweenBatches ==
  [][ /\ BatchEnds =>
           \/ /\ Len(wire') = Len(wire) + 1
              /\ wire'[Len(wire')].status = "pending"
              /\ Len(sends') = 1
              /\ timer' = "handle" /\ timeout' = NoTimeout
           \/ /\ wire' = [wire EXCEPT ![Len(wire)].status = wire'[Len(wire)].status]
              /\ size(events') = 0
              /\ sends' = <<>>
              /\ timer' = "undefined" /\ timeout' = NoTimeout
      /\ (Idle /\ isRunning /\ emitCalls' = emitCalls + 1) =>
           timer' = "handle" /\ timeout' = DEBOUNCE_MS /\ size(events') = 1
    ]_vars

\* a step in which the host calls emit()
HostEmits == emitCalls' = emitCalls + 1

\* C16: an emit on the running shipper appends its event and starts
\* neither a send cycle nor a request itself; on the idle shipper it arms
\* the one timeout of 2000 ms; while a timeout is pending or a send cycle
\* is active it leaves the timer handle and the timeout as they are.  A
\* send cycle starts only when the pending timeout fires, which uses the
\* timeout up: the emits of a burst share one timeout and one cycle.
C16_DebounceCoalescing ==
  [][ /\ (HostEmits /\ isRunning) =>
           /\ size(events') = size(events) + 1
           /\ SubSeq(events', 1, size(events)) = events
           /\ sends' = sends /\ wire' = wire
           /\ Idle => timer' = "handle" /\ timeout' = DEBOUNCE_MS
           /\ (timeout # NoTimeout \/ sends # <<>>) =>
                timer' = timer /\ timeout' = timeout
      /\ (sends = <<>> /\ sends' # <<>>) =>
           /\ timeout # NoTimeout /\ timeout' = NoTimeout
           /\ Len(sends') = 1
    ]_vars

\* a burst of two emits was sent by one cycle in one request
C16_Witness ==
  /\ emitCalls = 2
  /\ Len(sends) = 1
  /\ Len(wire) = 1
  /\ Len(wire[1].body.items) = 2

\* the events the shipper has accepted: queued, or taken off the queue
Accepted == QueueStamps \cup removed

\* C17: on a closed shipper, an emit() of the host changes neither the
\* queue, the timer (handle and timeout) nor the running flag, and starts
\* nothing; and no step at all of a closed shipper accepts an event, be it
\* the host's or the shipper's own event after its first successful
\* delivery: the queue only shrinks and every request holds only events
\* accepted before.
C17_NoAcceptanceAfterClose ==
  [][ ~isRunning =>
        /\ ~isRunning'
        /\ Accepted' = Accepted
        /\ \A i \in DOMAIN wire' : BodyStamps(wire'[i].body) \subseteq Accepted
        /\ HostEmits =>
             /\ events' = events
             /\ timer' = timer /\ timeout' = timeout
             /\ sends' = sends /\ wire' = wire
    ]_vars

\* after close(), the one accepted event was delivered (the first success
\* of the shipper), while the host's second emit and the shipper's own
\* event were not accepted
C17_Witness ==
  /\ ~isRunning
  /\ emitCalls = 2
  /\ isInitEvent
  /\ Cardinality(Accepted) = 1
  /\ Len(wire) = 1 /\ wire[1].status = "2xx"
  /\ Idle

\* a step in which close() is called
CloseCalled == closeCalls' = closeCalls + 1

\* C18: close() on a closed shipper changes neither the queue, the timer
\* (handle and timeout) nor the running flag and starts neither a send
\* cycle nor a request; in every state, close() after close() gives the
\* state that one close() gives.
C18_IdempotentClose ==
  [][ /\ close(close(This)) = close(This)
      /\ (CloseCalled /\ ~isRunning) =>
           /\ events' = events
           /\ timer' = timer /\ timeout' = timeout
           /\ isRunning' = isRunning
           /\ sends' = sends /\ wire' = wire
    ]_vars

\* close() was called twice; the closed shipper has sent what was queued
\* and is idle
C18_Witness ==
  /\ closeCalls = 2
  /\ ~isRunning
  /\ Idle
  /\ Len(wire) > 0

\* C19: close() called while a send cycle is active (an attempt is
\* outstanding, or the cycle waits to retry) leaves the cycle, its request,
\* the queue and the timer as they are and starts no second cycle; on the
\* closed shipper a retryable failure with retries left is still followed
\* by the retry wait for the same batch; and when the cycle ends on the
\* closed shipper, the queue is empty, every event taken off it is part of
\* a request, and the timer handle is cleared.
C19_CloseDuringFlight ==
  [][ /\ (CloseCalled /\ sends # <<>>) =>
           /\ sends' = sends /\ wire' = wire
           /\ events' = events
           /\ timer' = timer /\ timeout' = timeout
      /\ ~isRunning =>
           /\ Len(sends') <= 1
           /\ \A k \in DOMAIN sends :
                (/\ sends[k].pc = "post"
                 /\ Retryable(wire'[sends[k].req].status)
                 /\ sends[k].times < options.maxRetries - 1)
                  => sends' = [sends EXCEPT ![k].pc = "sleep"]
           /\ (sends # <<>> /\ sends' = <<>>) =>
                /\ size(events') = 0
                /\ removed' \subseteq UNION {BodyStamps(wire'[i].body) : i \in DOMAIN wire'}
                /\ timer' = "undefined"
    ]_vars

\* the size with which an event counts in a batch: that of its JSON text,
\* or of the JSON text of its placeholder when it is oversized
SizeInBatch(event, opts) ==
  IF JsonLength(event) > opts.eventBodyLimit
  THEN JsonLength(handleLargeEvent(event, JsonLength(event), opts.eventBodyLimit))
  ELSE JsonLength(event)

RECURSIVE PrefixSize(_, _, _)
PrefixSize(q, k, opts) ==
  IF k = 0 THEN 0 ELSE PrefixSize(q, k - 1, opts) + SizeInBatch(q[k], opts)

\* the largest k with overhead + s1 + ... + sk <= batchPayloadLimit
MaxPrefix(q, opts) ==
  CHOOSE k \in 0..Len(q) :
    /\ TAG_LENGTH + PrefixSize(q, k, opts) <= opts.batchPayloadLimit
    /\ \A j \in 0..Len(q) :
         TAG_LENGTH + PrefixSize(q, j, opts) <= opts.batchPayloadLimit => j <= k

\* a step in which send() builds a batch: the timeout fires, or the
\* attempts for the batch before end
BatchBuilt == (timeout # NoTimeout /\ timeout' = NoTimeout) \/ BatchEnds

\* the queue from which that batch is built: with the shipper's own event
\* when this step is its first successful delivery
QueueAtBuild ==
  IF ~isInitEvent /\ isInitEvent' /\ isRunning
  THEN Append(events, InitEvent(nextId))
  ELSE events

\* C20: the batch that send() builds from a queue of events with sizes
\* s1..sn is the maximal fitting prefix: events 1..k, in order and with
\* these sizes, where k is the largest index with
\* TAG_LENGTH + s1 + ... + sk <= batchPayloadLimit; events k+1..n stay in
\* the queue in order; with k = 0 no request is made.  The first conjunct
\* states it of the build loop applied to the queue of every state, the
\* second of the request made and the queue left by every step in which
\* send() builds a batch.
C20_MaximalPrefix ==
  [][ /\ LET b == BuildBatch(events, TAG_LENGTH, <<>>, options)
             k == MaxPrefix(events, options)
         IN  /\ b.events = SubSeq(events, k + 1, Len(events))
             /\ Len(b.contentArray) = k
             /\ \A i \in 1..k :
                  /\ b.contentArray[i].event.Timestamp = events[i].Timestamp
                  /\ b.contentArray[i].len = SizeInBatch(events[i], options)
      /\ BatchBuilt =>
        LET q == QueueAtBuild
            k == MaxPrefix(q, options)
        IN  /\ events' = SubSeq(q, k + 1, Len(q))
            /\ IF k = 0
               THEN Len(wire') = Len(wire)
               ELSE /\ Len(wire') = Len(wire) + 1
                    /\ Len(wire'[Len(wire')].body.items) = k
                    /\ \A i \in 1..k :
                         /\ wire'[Len(wire')].body.items[i].event.Timestamp
                              = q[i].Timestamp
                         /\ wire'[Len(wire')].body.items[i].len
                              = SizeInBatch(q[i], options)
    ]_vars

\* of three queued events of 141 bytes under batchPayloadLimit = 400, the
\* first two are in the request (13 + 282 <= 400 < 13 + 423) and the third
\* is left in the queue
C20_Witness ==
  /\ options.batchPayloadLimit = 400
  /\ Len(wire) = 1
  /\ BodyStamps(wire[1].body) = {1, 2}
  /\ wire[1].body.len = 296
  /\ QueueStamps = {3}

\* the items of the request made in this step, <<>> when none is made
NewItems ==
  IF Len(wire') = Len(wire) + 1 THEN wire'[Len(wire')].body.items ELSE <<>>

\* C21: in every step in which send() builds a batch, each event of the
\* request stands for the queued event at its place: an event whose JSON
\* text is longer than eventBodyLimit is sent as a placeholder, another
\* event with the same Timestamp and Level, the too-large template (with at
\* most 50 characters of the original one) and a `message` property made of
\* the limit and the observed size; an event of at most eventBodyLimit
\* bytes is sent as it is; and the events left in the queue are the queued
\* ones, unchanged, oversized or not.
C21_PlaceholderSubstitution ==
  [][ BatchBuilt =>
        LET q == QueueAtBuild
            k == Len(NewItems)
        IN  /\ k <= Len(q)
            /\ events' = SubSeq(q, k + 1, Len(q))
            /\ \A i \in 1..k :
                 LET orig == q[i]
                     sent == NewItems[i].event
                     n    == JsonLength(orig)
                 IN  IF n > options.eventBodyLimit
                     THEN /\ sent # orig
                          /\ sent.Timestamp = orig.Timestamp
                          /\ sent.Level = orig.Level
                          /\ sent.MessageTemplate
                               = LARGE_TEMPLATE_LENGTH
                                   + Min(orig.MessageTemplate, PARTIAL_MESSAGE_LENGTH)
                          /\ "message" \in DOMAIN sent.Properties
                          /\ sent.Properties["message"]
                               = LARGE_MESSAGE_LENGTH + Digits(options.eventBodyLimit)
                                   + Digits(n)
                          /\ NewItems[i].len = JsonLength(sent)
                     ELSE /\ sent = orig
                          /\ NewItems[i].len = n
    ]_vars

\* one request holds an event of exactly eventBodyLimit bytes, sent as it
\* is, and the placeholder of an event of 395 bytes
C21_Witness ==
  /\ options.eventBodyLimit = 141
  /\ Len(wire) = 1
  /\ Len(wire[1].body.items) = 2
  /\ wire[1].body.items[1].len = options.eventBodyLimit
  /\ wire[1].body.items[1].event.Level = "Information"
  /\ wire[1].body.items[2].event.Level = "Error"
  /\ "message" \in DOMAIN wire[1].body.items[2].event.Properties

\* C22: every key of the resolved options has the caller's value when the
\* caller gave it one, and the documented default when the key is absent
\* from the caller's options or present without a value.
C22_Defaults ==
  \A k \in DOMAIN defaultOptions :
    options[k] = IF k \in DOMAIN call.options /\ call.options[k] # Undefined
                 THEN call.options[k]
                 ELSE defaultOptions[k]

\* the ranks of the levels: verbose < debug < info = log < warn < error < fatal
Severity ==
  <<{"verbose"}, {"debug"}, {"info", "log"}, {"warn"}, {"error"}, {"fatal"}>>

Rank(level) == CHOOSE r \in DOMAIN Severity : level \in Severity[r]

\* C23: a logging call of level M hands one event of that level to the
\* shipper exactly when logLevels is unset, or is a single level L with M
\* not below L, or is an array with M among its elements; otherwise the
\* call leaves the shipper's queue and timer as they are.
C23_LevelFilter ==
  [][ call'.n = call.n + 1 =>
        LET M  == call'.level
            ll == options.logLevels
            pass == \/ "unset" \in DOMAIN ll
                    \/ "level" \in DOMAIN ll /\ Rank(M) >= Rank(ll.level)
                    \/ "levels" \in DOMAIN ll /\ M \in ll.levels
        IN  IF pass
            THEN /\ size(events') = size(events) + 1
                 /\ SubSeq(events', 1, size(events)) = events
                 /\ events'[size(events')].Level = levelMapping[M]
                 /\ timer' = "handle"
            ELSE /\ events' = events
                 /\ timer' = timer /\ timeout' = timeout
                 /\ nextId' = nextId
    ]_vars

\* with the single level info, a call of level log was committed and a
\* call of level debug was filtered
C23_Witness ==
  /\ "level" \in DOMAIN options.logLevels
  /\ options.logLevels.level = "info"
  /\ call.n = 2
  /\ call.level = "debug"
  /\ size(events) = 1
  /\ events[1].Level = "Information"
  /\ nextId = 2

\* C24: when no timer handle is held the pending queue is empty, and a
\* non-empty queue always has a timeout that has not fired or an active
\* send cycle to pick its events up.
C24_IdleImpliesEmpty ==
  /\ timer = "undefined" => size(events) = 0
  /\ size(events) > 0 => RuntimePending

\* the batch payloads that hold the event created at logical time t
BatchesOf(t) ==
  {body \in {wire[i].body : i \in DOMAIN wire} : t \in BodyStamps(body)}

\* C25: every event taken off the queue is placed, as itself or as its
\* placeholder, in exactly one batch payload: none is in two different
\* batches and none leaves the queue without a batch.
C25_ExactlyOneBatch == \A t \in removed : Cardinality(BatchesOf(t)) = 1

\* C26: once an attempt for a batch has returned a 2xx response, no later
\* attempt carries the payload of that batch.
C26_NoResendAfterAck ==
  \A i \in DOMAIN wire :
    wire[i].status = "2xx" =>
      \A j \in DOMAIN wire : j > i => wire[j].body # wire[i].body

\* an attempt was acknowledged while the for loop had passes left, and the
\* shipper has made a later attempt
C26_Witness ==
  \E i \in DOMAIN wire :
    /\ wire[i].status = "2xx"
    /\ mayRetry(Cardinality({j \in AttemptsOf(i) : j <= i}) - 1, options)
    /\ i < Len(wire)

\* the shipper's own event, or its placeholder: the only events without
\* the hostname property of the host's events
IsInitEvent(event) == "hostname" \notin DOMAIN event.Properties

\* Timestamps of the shipper's own events, queued or placed in a batch
InitStamps ==
  {events[k].Timestamp : k \in {k \in DOMAIN events : IsInitEvent(events[k])}}
    \cup UNION {{wire[i].body.items[n].event.Timestamp :
                   n \in {n \in DOMAIN wire[i].body.items :
                            IsInitEvent(wire[i].body.items[n].event)}} :
                i \in DOMAIN wire}

Acknowledged == \E i \in DOMAIN wire : wire[i].status = "2xx"

\* C27: the shipper enqueues its own 'Seq logger initialized successfully'
\* event at most once in its life, at the first 2xx response and only when
\* it is not closed, and the event is sent by the send cycle that enqueued
\* it, with no debounce armed for it.
C27_InitEventOnce ==
  [][/\ Cardinality(InitStamps') <= 1
     /\ InitStamps' # InitStamps => ~Acknowledged /\ Acknowledged' /\ isRunning
     /\ \A k \in DOMAIN events' :
          IsInitEvent(events'[k]) => sends' # <<>> /\ timeout' = NoTimeout]_vars

\* the serialization in which '[Circular]' stands only for a reference to
\* an ancestor: an object on the path from the root to the reference
RECURSIVE CircularForAncestors(_, _, _, _, _)
CircularForAncestors(heap, o, i, text, ancestors) ==
  IF i > Len(Keys) THEN text
  ELSE LET key   == Keys[i]
           value == heap[o][key]
           out   == IF ~IsObject(value) THEN value
                    ELSE IF value.ref \in ancestors THEN Circular
                    ELSE CircularForAncestors(heap, value.ref, 1, <<>>,
                                              ancestors \cup {value.ref})
       IN  CircularForAncestors(heap, o, i + 1,
                                IF value = Undefined THEN text
                                ELSE text @@ (key :> out), ancestors)

\* C28: safeStringify puts '[Circular]' in place of a reference only when
\* the referenced object is an ancestor of the reference; an object reached
\* by two paths that form no cycle is serialized in full at both places.
C28_CircularOnlyForCycles ==
  call.op = "safeStringify returned" =>
    call.text = CircularForAncestors(call.heap, call.obj, 1, <<>>, {call.obj})

\* C30: no logging call of SeqLogger adds, removes or changes a key of the
\* properties object the caller passes.
C30_CallerPropertiesUnchanged ==
  call.op = "SeqLogger returned" => call.properties = call.passed

\* C29: when the only argument of a console-logger call is a string, the
\* event forwarded to the Seq logger carries that string as its message,
\* with the logger's default context: a lone string is not taken as the
\* context.
C29_ConsoleKeepsMessage ==
  (/\ call.op = "ConsoleSeqLogger returned"
   /\ call.seqEvent # Undefined
   /\ Len(call.args) = 1
   /\ IsString(call.args[1]))
  => /\ call.seqEvent.MessageTemplate.text = call.args[1]
     /\ "message" \in DOMAIN call.seqEvent.Properties
     /\ call.seqEvent.Properties.message = call.args[1]
     /\ IF call.context = Undefined
        THEN "context" \notin DOMAIN call.seqEvent.Properties
        ELSE /\ "context" \in DOMAIN call.seqEvent.Properties
             /\ call.seqEvent.Properties.context = call.context

====
